---- MODULE Spec2Model ----
(***************************************************************************)
(* bldd (backward ldd): a model of src/bldd.c.                             *)
(*                                                                         *)
(* Strings are sequences of one-character strings, so that strstr,         *)
(* strncmp, snprintf and strncpy are computed character by character.      *)
(* A run of the program is: parse_arguments, scan_directory (recursive,    *)
(* one step per directory entry and one per NEEDED line), the reports,     *)
(* the summary, cleanup.                                                   *)
(***************************************************************************)
EXTENDS Integers, Sequences, FiniteSets, TLC

(***************************************************************************)
(* Program constants (src/bldd.c:22-27).  MAX_LIBS and MAX_EXECS are       *)
(* scaled down from 100 and 10000 so that the capacity cases are reached;  *)
(* every comparison against them is the code's.                            *)
(***************************************************************************)
MAX_LIBS == 2

MAX_EXECS == 2

MAX_ARCH == 4

MAX_PATH == 4096

LIB_PATTERN_SIZE == 256

LIB_NAME_SIZE == 256

(***************************************************************************)
(* C strings                                                               *)
(***************************************************************************)
Take(s, n) == IF Len(s) <= n THEN s ELSE SubSeq(s, 1, n)

\* strstr(hay, needle) != NULL
Contains(hay, needle) ==
    \E i \in 0..(Len(hay) - Len(needle)) :
        \A j \in 1..Len(needle) : hay[i + j] = needle[j]

\* strncmp(s, prefix, Len(prefix)) == 0
HasPrefix(s, prefix) ==
    /\ Len(s) >= Len(prefix)
    /\ \A j \in 1..Len(prefix) : s[j] = prefix[j]

Rep(c, n) == [i \in 1..n |-> c]

DotSo == <<".", "s", "o">>

Lib == <<"l", "i", "b">>


(***************************************************************************)
(* Inputs.  Search terms (argv values of --lib) and the file system the    *)
(* scan walks.  A path is the sequence of its components.                  *)
(***************************************************************************)
T_c == <<"c">>

T_libm == <<"l", "i", "b", "m">>

Terms == {T_c, T_libm, DotSo}

libc_so_6 == <<"l", "i", "b", "c", ".", "s", "o", ".", "6">>

libm_so_6 == <<"l", "i", "b", "m", ".", "s", "o", ".", "6">>

libdl_so_2 == <<"l", "i", "b", "d", "l", ".", "s", "o", ".", "2">>

Root == <<"r">>

NoDir == <<"nonexistent">>

\* the symbolic link of the tree, and the directory it points to: an
\* ancestor of the link
LoopLink == <<"r", "sub", "loop">>

LinkTarget == Root

Parent(p) == SubSeq(p, 1, Len(p) - 1)

\* The file a path names once the kernel has followed the symbolic links in
\* it
RECURSIVE Real(_)
Real(p) ==
    IF Len(p) <= 1 THEN p
    ELSE LET q == Real(Parent(p)) \o <<p[Len(p)]>>
         IN  IF q = LoopLink THEN LinkTarget ELSE q

\* readdir(): the entries of a directory, in the order readdir returns them
DirEntries(d) ==
    CASE Real(d) = Root -> <<".", "..", "a", "sub", "locked", "gone", "d", "g", "f">>
      [] Real(d) = <<"r", "sub">> ->
            <<".", "..", "b", "loop", "c", "e", "s", "h", "k">>
      [] Real(d) = <<"r", "locked">> -> <<".", "..", "z">>
      [] OTHER -> <<".", "..">>

\* opendir() != NULL
CanOpen(d) == Real(d) \in {Root, <<"r", "sub">>}

\* the type of a file that is not a symbolic link; "gone" is a name whose
\* file has been removed since readdir returned it
KindOf(q) ==
    CASE q \in {Root, <<"r", "sub">>, <<"r", "locked">>} -> "dir"
      [] q = <<"r", "gone">> -> "gone"
      [] OTHER -> "reg"

\* stat(): the type of the file the path leads to, links followed
StatKind(p) == KindOf(Real(p))

\* lstat(): the type of the entry itself (a symbolic link is "lnk", whatever
\* it points to); "gone" is lstat() == -1
LstatKind(p) ==
    LET q == Real(Parent(p)) \o <<p[Len(p)]>>
    IN  IF q = LoopLink THEN "lnk" ELSE KindOf(q)

\* access(path, X_OK) == 0
XOk(p) == Real(p) # <<"r", "sub", "e">>

\* system("readelf -h path") == 0: the file is an ELF file
ReadelfOk(p) == Real(p) # <<"r", "sub", "s">>

\* The needles of get_architecture found in the "Machine:" line that
\* readelf -h prints for the file ({} for a machine the program does not know)
MachineLine(p) ==
    CASE Real(p) \in {<<"r", "a">>, <<"r", "sub", "b">>, <<"r", "f">>,
                      <<"r", "locked", "z">>} ->
            {"Advanced Micro Devices X86-64"}
      [] Real(p) \in {<<"r", "sub", "c">>, <<"r", "d">>} -> {"Intel 80386"}
      [] Real(p) = <<"r", "sub", "h">> -> {"AArch64"}
      [] Real(p) = <<"r", "sub", "k">> -> {"ARM"}
      [] OTHER -> {}

\* The names in the "(NEEDED) Shared library: [name]" lines of readelf -d
NeededLines(p) ==
    CASE Real(p) = <<"r", "a">> -> <<libm_so_6, libc_so_6, libdl_so_2>>
      [] Real(p) = <<"r", "sub", "b">> -> <<libc_so_6>>
      [] Real(p) = <<"r", "d">> -> <<libc_so_6>>
      [] Real(p) = <<"r", "f">> -> <<libdl_so_2>>
      [] Real(p) = <<"r", "sub", "c">> -> <<libdl_so_2, libc_so_6>>
      [] Real(p) = <<"r", "sub", "h">> -> <<libc_so_6>>
      [] Real(p) = <<"r", "sub", "k">> -> <<libdl_so_2>>
      [] Real(p) = <<"r", "locked", "z">> -> <<libm_so_6>>
      [] OTHER -> <<>>

(***************************************************************************)
(* The store: archs[MAX_ARCH], arch_count, total_execs (src/bldd.c:55-57). *)
(* Arrays are functions on 0..N-1 as in the code; a slot at or past its    *)
(* count holds whatever was last written there (zeroes after memset).      *)
(* A memory M is the record of the globals the store functions touch:      *)
(*   archs, arch_count, total_execs,                                      *)
(*   phantom[a]: the executables written through archs[a].libraries[-1],   *)
(*   oob: the out-of-range accesses made so far,                           *)
(*   diag: the diagnostics written to stderr so far.                       *)
(***************************************************************************)
NULL == <<>>

ArchIdx == 0..(MAX_ARCH - 1)

LibIdx == 0..(MAX_LIBS - 1)

ExecIdx == 0..(MAX_EXECS - 1)

ZeroLibrary == [name |-> NULL, execs |-> [e \in ExecIdx |-> NULL], exec_count |-> 0]

ZeroArchitecture ==
    [name |-> "", libraries |-> [l \in LibIdx |-> ZeroLibrary], lib_count |-> 0]

SetMin(S) == CHOOSE x \in S : \A y \in S : x <= y

\* the loop of find_or_add_architecture: first i < arch_count with strcmp == 0
ArchLookup(M, arch) ==
    LET hits == {i \in 0..(M.arch_count - 1) : M.archs[i].name = arch}
    IN  IF hits = {} THEN -1 ELSE SetMin(hits)

\* Returns [M, ret]: the memory afterwards and the index returned
find_or_add_architecture(M, arch) ==
    LET i == ArchLookup(M, arch)
    IN  IF i # -1
        THEN [M |-> M, ret |-> i]
        ELSE IF M.arch_count < MAX_ARCH
        THEN [M |-> [M EXCEPT !.archs[M.arch_count].name = arch,
                              !.archs[M.arch_count].lib_count = 0,
                              !.arch_count = @ + 1],
              ret |-> M.arch_count]
        ELSE [M |-> [M EXCEPT !.diag = @ \cup {"Too many architectures"}],
              ret |-> -1]

\* the lookup with the loop bound off by one: the last library is not seen
LibLookupOffByOne(arch, lib_name) ==
    LET hits == {i \in 0..(arch.lib_count - 2) : arch.libraries[i].name = lib_name}
    IN  IF hits = {} THEN -1 ELSE SetMin(hits)

\* the loop of find_or_add_library: first i < lib_count with strcmp == 0
LibLookup(arch, lib_name) ==
    LET hits == {i \in 0..(arch.lib_count - 1) : arch.libraries[i].name = lib_name}
    IN  IF hits = {} THEN -1 ELSE SetMin(hits)

\* Returns [M, ret].  arch_index is used unchecked: with -1 the function
\* reads archs[-1], which is outside the array.
find_or_add_library(M, arch_index, lib_name) ==
    IF arch_index \notin ArchIdx
    THEN [M |-> [M EXCEPT !.oob = @ \cup {"archs[-1]"}], ret |-> -1]
    ELSE
    LET arch == M.archs[arch_index]
        i == LibLookup(arch, lib_name)
    IN  IF i # -1
        THEN [M |-> M, ret |-> i]
        ELSE IF arch.lib_count < MAX_LIBS
        THEN [M |-> [M EXCEPT
                  !.archs[arch_index].libraries[arch.lib_count].name =
                      Take(lib_name, LIB_NAME_SIZE - 1),
                  !.archs[arch_index].libraries[arch.lib_count].exec_count = 0,
                  !.archs[arch_index].lib_count = @ + 1],
              ret |-> arch.lib_count]
        ELSE [M |-> [M EXCEPT !.diag = @ \cup {"Too many libraries"}],
              ret |-> -1]

\* add_executable without the loop that looks for the path
add_executable_no_lookup(M, arch_index, lib_index, exec_path) ==
    LET lib == M.archs[arch_index].libraries[lib_index]
    IN  IF lib.exec_count < MAX_EXECS
        THEN [M EXCEPT
                 !.archs[arch_index].libraries[lib_index].execs[lib.exec_count] =
                     exec_path,
                 !.archs[arch_index].libraries[lib_index].exec_count = @ + 1,
                 !.total_execs = @ + 1]
        ELSE [M EXCEPT !.diag = @ \cup {"Too many executables"}]

\* add_executable on a slot of the arrays
add_executable_in_range(M, arch_index, lib_index, exec_path) ==
    LET lib == M.archs[arch_index].libraries[lib_index]
    IN  IF \E i \in 0..(lib.exec_count - 1) : lib.execs[i] = exec_path
        THEN M
        ELSE IF lib.exec_count < MAX_EXECS
        THEN [M EXCEPT
                 !.archs[arch_index].libraries[lib_index].execs[lib.exec_count] =
                     exec_path,
                 !.archs[arch_index].libraries[lib_index].exec_count = @ + 1,
                 !.total_execs = @ + 1]
        ELSE [M EXCEPT !.diag = @ \cup {"Too many executables"}]

\* add_executable with lib_index == -1 (find_or_add_library's error return,
\* passed on unchecked by get_dependencies): &libraries[-1] is the
\* sizeof(Library) bytes before the array.  When the process survives the
\* access, that memory behaves as one more Library, outside every count.
add_executable_out_of_range(M, arch_index, exec_path) ==
    LET a == IF arch_index \in ArchIdx THEN arch_index ELSE 0
        ph == M.phantom[a]
        M1 == [M EXCEPT !.oob = @ \cup {"libraries[-1]"}]
    IN  IF \E i \in 1..Len(ph) : ph[i] = exec_path
        THEN M1
        ELSE IF Len(ph) < MAX_EXECS
        THEN [M1 EXCEPT !.phantom[a] = Append(@, exec_path),
                        !.total_execs = @ + 1]
        ELSE [M1 EXCEPT !.diag = @ \cup {"Too many executables"}]

add_executable(M, arch_index, lib_index, exec_path) ==
    IF arch_index \in ArchIdx /\ lib_index \in LibIdx
    THEN add_executable_in_range(M, arch_index, lib_index, exec_path)
    ELSE add_executable_out_of_range(M, arch_index, exec_path)

\* lines 374-376 of get_dependencies: the three calls that record a match
\* (each call's result is a value before the next call takes it)
Record(M, arch, lib_pattern, file_path) ==
    CHOOSE M3 \in UNION {UNION {
               {add_executable(r2.M, r1.ret, r2.ret, file_path)} :
                   r2 \in {find_or_add_library(r1.M, r1.ret, lib_pattern)}} :
                   r1 \in {find_or_add_architecture(M, arch)}} : TRUE

\* whether those calls index an array out of range
RecordOutOfRange(M, arch, lib_pattern) ==
    LET r1 == find_or_add_architecture(M, arch)
        r2 == find_or_add_library(r1.M, r1.ret, lib_pattern)
    IN  r1.ret = -1 \/ r2.ret = -1

(***************************************************************************)
(* LibraryMatcher: lines 359-379 of get_dependencies                       *)
(***************************************************************************)
\* The canonical form built in lib_pattern[256] from one search term:
\* snprintf truncates to the buffer, strcpy does not look at its size.
lib_pattern_of(lib_search) ==
    IF ~Contains(lib_search, DotSo)
    THEN IF ~HasPrefix(lib_search, Lib)
         THEN Take(Lib \o lib_search \o DotSo, LIB_PATTERN_SIZE - 1)
         ELSE Take(lib_search \o DotSo, LIB_PATTERN_SIZE - 1)
    ELSE lib_search

\* strcpy(lib_pattern, lib_search) writes past lib_pattern[256]
PatternOverflows(lib_search) ==
    Contains(lib_search, DotSo) /\ Len(lib_search) + 1 > LIB_PATTERN_SIZE

\* strstr(lib_name, lib_pattern) != NULL
Matches(lib_name, lib_search) == Contains(lib_name, lib_pattern_of(lib_search))

\* the for loop without its break: the last term that matches
LastMatch(libs, lib_count, lib_name) ==
    LET hits == {i \in 1..lib_count : Matches(lib_name, libs[i])}
    IN  IF hits = {} THEN 0 ELSE CHOOSE i \in hits : \A j \in hits : j <= i

\* The for loop with its break: the index (1-based here, i + 1 of the code)
\* of the first term that matches, 0 when the loop ends without a match
FirstMatch(libs, lib_count, lib_name) ==
    LET hits == {i \in 1..lib_count : Matches(lib_name, libs[i])}
    IN  IF hits = {} THEN 0 ELSE SetMin(hits)

\* get_architecture: the cascade of strstr tests on the "Machine:" line
get_architecture(machine) ==
    IF "Advanced Micro Devices X86-64" \in machine \/ "AMD x86-64" \in machine
    THEN "x86_64"
    ELSE IF "Intel 80386" \in machine THEN "x86"
    ELSE IF "ARM aarch64" \in machine \/ "AArch64" \in machine THEN "aarch64"
    ELSE IF "ARM" \in machine THEN "armv7"
    ELSE "unknown"

is_executable(p) == XOk(p) /\ ReadelfOk(p)

(***************************************************************************)
(* State of one run                                                        *)
(***************************************************************************)
VARIABLES
    pc,           \* where main is: "start", "parse", "scan", "txt", "pdf",
                  \* "summary", "exited", "crashed"
    exit_code,    \* the exit status once pc = "exited", -1 before
    options,      \* Options: libs, lib_count, dir, output_len, txt_format, pdf_format
    dir_set,      \* parse_arguments' local
    archs, arch_count, total_execs,
    phantom,      \* what was written through libraries[-1]
    oob,          \* out-of-range accesses made so far
    diag,         \* diagnostics written to stderr so far
    stack,        \* the active calls of scan_directory: [path, pos, open]
    cur,          \* the running call of get_dependencies: [active, path, arch, lines]
    txt_report,   \* the text report written, [saved, body]
    pdf_report,   \* the PDF report written, [saved, body]
    summary,      \* the summary line printed: <<>> or <<total_execs, arch_count>>
    cmdline,      \* the command line as read so far: [empty, help]
    last,         \* history: the last operation on the store and the store
                  \* before it
    walk,         \* history: the paths scan_directory was called with and
                  \* the regular files it looked at, in order
    n_pc, n_term, n_once, n_twice  \* the normalization harness (SpecNorm)

store_vars == <<archs, arch_count, total_execs, phantom>>

norm_vars == <<n_pc, n_term, n_once, n_twice>>

prog_vars ==
    <<pc, exit_code, options, dir_set, archs, arch_count, total_execs, phantom,
      oob, diag, stack, cur, txt_report, pdf_report, summary, cmdline, last,
      walk>>

vars == <<prog_vars, cmdline, last, norm_vars>>

Mem ==
    [archs |-> archs, arch_count |-> arch_count, total_execs |-> total_execs,
     phantom |-> phantom, oob |-> oob, diag |-> diag]

SetMem(M) ==
    /\ archs' = M.archs
    /\ arch_count' = M.arch_count
    /\ total_execs' = M.total_execs
    /\ phantom' = M.phantom
    /\ oob' = M.oob
    /\ diag' = M.diag

NoFile == [active |-> FALSE, path |-> <<>>, arch |-> "", lines |-> <<>>]

NoReport == [saved |-> FALSE, body |-> <<>>]

StoreNow == [archs |-> archs, arch_count |-> arch_count, total_execs |-> total_execs]

\* history record of an operation on the store
Op(op, arch, dep, term, path) ==
    [op |-> op, arch |-> arch, dep |-> dep, term |-> term, path |-> path,
     before |-> StoreNow]

\* main after memset (lines 78-79), before parse_arguments
ProgInit ==
    /\ pc = "start"
    /\ exit_code = -1
    /\ options = [libs |-> <<>>, lib_count |-> 0, dir |-> NULL, output_len |-> 0,
                  txt_format |-> FALSE, pdf_format |-> FALSE]
    /\ dir_set = FALSE
    /\ archs = [a \in ArchIdx |-> ZeroArchitecture]
    /\ arch_count = 0
    /\ total_execs = 0
    /\ phantom = [a \in ArchIdx |-> <<>>]
    /\ oob = {}
    /\ diag = {}
    /\ stack = <<>>
    /\ cur = NoFile
    /\ txt_report = NoReport
    /\ pdf_report = NoReport
    /\ summary = <<>>
    /\ cmdline = [empty |-> FALSE, help |-> FALSE]
    /\ walk = <<>>
    /\ last = [op |-> "none", arch |-> "", dep |-> <<>>, term |-> 0, path |-> <<>>,
               before |-> StoreNow]

NormIdle ==
    /\ n_pc = "idle"
    /\ n_term = <<>>
    /\ n_once = <<>>
    /\ n_twice = <<>>

Init == ProgInit /\ NormIdle

Exit(code) ==
    /\ pc' = "exited"
    /\ exit_code' = code

(***************************************************************************)
(* parse_arguments (lines 112-208).  The command line is read one option   *)
(* at a time; each action below is one turn of the for loop at line 135,   *)
(* for one choice of the next argv element(s).                             *)
(***************************************************************************)
\* the model reads at most one --lib option more than libs has slots
LibFlagCap == MAX_LIBS + 1

\* strlen of the values given to --output: short, the longest for which
\* strlen + 5 > MAX_PATH is false, the shortest for which it is true, and
\* the shortest that does not fit options->output
OutputLens == {6, MAX_PATH - 5, MAX_PATH - 4, MAX_PATH}

DefaultOutputLen == 11

Defaults ==
    [options EXCEPT !.txt_format = TRUE, !.pdf_format = FALSE,
                    !.output_len = DefaultOutputLen]

\* line 117-121: malloc fails
MallocFails ==
    /\ pc = "start"
    /\ diag' = diag \cup {"Memory allocation failed"}
    /\ Exit(1)
    /\ \E e \in BOOLEAN : cmdline' = [cmdline EXCEPT !.empty = e]
    /\ UNCHANGED <<options, dir_set, store_vars, oob, stack, cur, txt_report,
                   pdf_report, summary, last, walk,
                   norm_vars>>

\* lines 123-132: argc < 2
NoArguments ==
    /\ pc = "start"
    /\ options' = Defaults
    /\ Exit(0)
    /\ cmdline' = [cmdline EXCEPT !.empty = TRUE]
    /\ UNCHANGED <<dir_set, store_vars, oob, diag, stack, cur, txt_report,
                   pdf_report, summary, last, walk,
                   norm_vars>>

\* lines 123-135: argc >= 2, the loop starts
BeginParse ==
    /\ pc = "start"
    /\ options' = Defaults
    /\ pc' = "parse"
    /\ UNCHANGED <<exit_code, dir_set, store_vars, oob, diag, stack, cur,
                   txt_report, pdf_report, summary, cmdline, last, walk,
                   norm_vars>>

\* lines 136-138: --help / -h
ArgHelp ==
    /\ pc = "parse"
    /\ Exit(0)
    /\ cmdline' = [cmdline EXCEPT !.help = TRUE]
    /\ UNCHANGED <<options, dir_set, store_vars, oob, diag, stack, cur,
                   txt_report, pdf_report, summary, last, walk,
                   norm_vars>>

\* lines 139-142: --lib / -l with a value.  libs has MAX_LIBS slots and
\* lib_count is not compared with it.
ArgLib ==
    /\ pc = "parse"
    /\ options.lib_count < LibFlagCap
    /\ \E t \in Terms :
         options' = [options EXCEPT !.libs = Append(@, t), !.lib_count = @ + 1]
    /\ oob' = IF options.lib_count >= MAX_LIBS
              THEN oob \cup {"libs[MAX_LIBS]"} ELSE oob
    /\ UNCHANGED <<pc, exit_code, dir_set, store_vars, diag, stack, cur,
                   txt_report, pdf_report, summary, cmdline, last, walk,
                   norm_vars>>

\* lines 143-146, 151-154, 171-174, 178-181: an option that takes a value
\* is the last argument
ArgMissingValue ==
    /\ pc = "parse"
    /\ \E m \in {"--lib requires a library name", "--dir requires a directory path",
                 "--format requires a format type", "--output requires a filename"} :
         diag' = diag \cup {m}
    /\ Exit(1)
    /\ UNCHANGED <<options, dir_set, store_vars, oob, stack, cur, txt_report,
                   pdf_report, summary, cmdline, last, walk,
                   norm_vars>>

\* lines 147-150: --dir / -d with a value
ArgDir ==
    /\ pc = "parse"
    /\ \E d \in {Root, NoDir} : options' = [options EXCEPT !.dir = d]
    /\ dir_set' = TRUE
    /\ UNCHANGED <<pc, exit_code, store_vars, oob, diag, stack, cur, txt_report,
                   pdf_report, summary, cmdline, last, walk,
                   norm_vars>>

\* lines 155-166: --format / -f with txt, pdf or both
ArgFormat ==
    /\ pc = "parse"
    /\ \E f \in {"txt", "pdf", "both"} :
         options' = [options EXCEPT !.txt_format = (f \in {"txt", "both"}),
                                    !.pdf_format = (f \in {"pdf", "both"})]
    /\ UNCHANGED <<pc, exit_code, dir_set, store_vars, oob, diag, stack, cur,
                   txt_report, pdf_report, summary, cmdline, last, walk,
                   norm_vars>>

\* lines 167-170: --format with another value
ArgFormatUnknown ==
    /\ pc = "parse"
    /\ diag' = diag \cup {"Unknown format"}
    /\ Exit(1)
    /\ UNCHANGED <<options, dir_set, store_vars, oob, stack, cur, txt_report,
                   pdf_report, summary, cmdline, last, walk,
                   norm_vars>>

\* lines 175-177: --output / -o with a value that fits options->output
ArgOutput ==
    /\ pc = "parse"
    /\ \E n \in OutputLens :
         /\ n + 1 <= MAX_PATH
         /\ options' = [options EXCEPT !.output_len = n]
    /\ UNCHANGED <<pc, exit_code, dir_set, store_vars, oob, diag, stack, cur,
                   txt_report, pdf_report, summary, cmdline, last, walk,
                   norm_vars>>

\* lines 175-177: strcpy of a value that does not fit: the bytes past
\* output[MAX_PATH] land on txt_format, pdf_format and what follows them
ArgOutputOverflow ==
    /\ pc = "parse"
    /\ \E n \in OutputLens, t \in BOOLEAN, f \in BOOLEAN :
         /\ n + 1 > MAX_PATH
         /\ options' = [options EXCEPT !.output_len = n, !.txt_format = t,
                                       !.pdf_format = f]
    /\ oob' = oob \cup {"options.output"}
    /\ UNCHANGED <<pc, exit_code, dir_set, store_vars, diag, stack, cur,
                   txt_report, pdf_report, summary, cmdline, last, walk,
                   norm_vars>>

\* lines 182-186: any other argument
ArgUnknown ==
    /\ pc = "parse"
    /\ diag' = diag \cup {"Unknown option"}
    /\ Exit(1)
    /\ UNCHANGED <<options, dir_set, store_vars, oob, stack, cur, txt_report,
                   pdf_report, summary, cmdline, last, walk,
                   norm_vars>>

\* the end of the loop without the test of lib_count
ArgsEndNoLibCheck ==
    /\ pc = "parse"
    /\ IF ~dir_set
       THEN /\ diag' = diag \cup {"Scan directory must be specified"}
            /\ Exit(1)
            /\ UNCHANGED <<stack, walk>>
       ELSE IF ~CanOpen(options.dir)
       THEN /\ diag' = diag \cup {"Cannot open directory (root)"}
            /\ Exit(1)
            /\ UNCHANGED <<stack, walk>>
       ELSE /\ pc' = "scan"
            /\ stack' = <<[path |-> options.dir, pos |-> 1, open |-> FALSE]>>
            /\ walk' = <<options.dir>>
            /\ UNCHANGED <<exit_code, diag>>
    /\ UNCHANGED <<options, dir_set, store_vars, oob, cur, txt_report,
                   pdf_report, summary, cmdline, last, norm_vars>>

\* lines 189-208: the loop has ended; the required options and the root.
\* On success main goes on to scan_directory(options.dir) (line 85).
ArgsEnd ==
    /\ pc = "parse"
    /\ IF options.lib_count = 0
       THEN /\ diag' = diag \cup {"At least one library must be specified"}
            /\ Exit(1)
            /\ UNCHANGED <<stack, walk>>
       ELSE IF ~dir_set
       THEN /\ diag' = diag \cup {"Scan directory must be specified"}
            /\ Exit(1)
            /\ UNCHANGED <<stack, walk>>
       ELSE IF ~CanOpen(options.dir)
       THEN /\ diag' = diag \cup {"Cannot open directory (root)"}
            /\ Exit(1)
            /\ UNCHANGED <<stack, walk>>
       ELSE /\ pc' = "scan"
            /\ stack' = <<[path |-> options.dir, pos |-> 1, open |-> FALSE]>>
            /\ walk' = <<options.dir>>
            /\ UNCHANGED <<exit_code, diag>>
    /\ UNCHANGED <<options, dir_set, store_vars, oob, cur, txt_report,
                   pdf_report, summary, cmdline, last, norm_vars>>

(***************************************************************************)
(* scan_directory (lines 225-281).  stack holds the active calls, the      *)
(* innermost last; one action per turn of the readdir loop.                *)
(***************************************************************************)
Top == stack[Len(stack)]

Pop == SubSeq(stack, 1, Len(stack) - 1)

SetTop(f) == [stack EXCEPT ![Len(stack)] = f]

Scanning == pc = "scan" /\ stack # <<>> /\ ~cur.active

EntryName == DirEntries(Top.path)[Top.pos]

EntryPath == Top.path \o <<EntryName>>

HasEntry == Top.open /\ Top.pos <= Len(DirEntries(Top.path))

\* the return of the outermost call takes main to the reports (line 88)
Return ==
    /\ stack' = Pop
    /\ pc' = IF Len(stack) = 1 THEN "txt" ELSE pc

\* opendir treated as at the root: a directory that cannot be opened ends
\* the run
ScanOpenFatal ==
    /\ Scanning
    /\ ~Top.open
    /\ IF CanOpen(Top.path)
       THEN /\ stack' = SetTop([Top EXCEPT !.open = TRUE])
            /\ UNCHANGED <<pc, exit_code, diag>>
       ELSE /\ diag' = diag \cup {"Cannot open directory"}
            /\ Exit(1)
            /\ UNCHANGED stack
    /\ UNCHANGED <<options, dir_set, store_vars, oob, cur,
                   txt_report, pdf_report, summary, cmdline, last, walk,
                   norm_vars>>

\* lines 240-243: opendir of the directory of this call
ScanOpen ==
    /\ Scanning
    /\ ~Top.open
    /\ IF CanOpen(Top.path)
       THEN /\ stack' = SetTop([Top EXCEPT !.open = TRUE])
            /\ UNCHANGED <<pc, diag>>
       ELSE /\ diag' = diag \cup {"Cannot open directory"}
            /\ Return
    /\ UNCHANGED <<exit_code, options, dir_set, store_vars, oob, cur,
                   txt_report, pdf_report, summary, cmdline, last, walk,
                   norm_vars>>

\* lines 246-257 and the entries that are neither directory nor regular
\* file: ".", "..", a failed lstat, a symbolic link: continue
ScanSkip ==
    /\ Scanning
    /\ HasEntry
    /\ \/ EntryName \in {".", ".."}
       \/ LstatKind(EntryPath) \notin {"dir", "reg"}
    /\ stack' = SetTop([Top EXCEPT !.pos = @ + 1])
    /\ UNCHANGED <<pc, exit_code, options, dir_set, store_vars, oob, diag, cur,
                   txt_report, pdf_report, summary, cmdline, last, walk,
                   norm_vars>>

\* lines 260-261: S_ISDIR: the recursive call
ScanDescend ==
    /\ Scanning
    /\ HasEntry
    /\ EntryName \notin {".", ".."}
    /\ LstatKind(EntryPath) = "dir"
    /\ stack' = Append(SetTop([Top EXCEPT !.pos = @ + 1]),
                       [path |-> EntryPath, pos |-> 1, open |-> FALSE])
    /\ walk' = Append(walk, EntryPath)
    /\ UNCHANGED <<pc, exit_code, options, dir_set, store_vars, oob, diag, cur,
                   txt_report, pdf_report, summary, cmdline, last, norm_vars>>

\* lines 264-276: S_ISREG: is_executable, get_architecture, and the call of
\* get_dependencies up to its first fgets
ScanFile ==
    /\ Scanning
    /\ HasEntry
    /\ EntryName \notin {".", ".."}
    /\ LstatKind(EntryPath) = "reg"
    /\ stack' = SetTop([Top EXCEPT !.pos = @ + 1])
    /\ LET arch == get_architecture(MachineLine(EntryPath))
       IN  cur' = IF is_executable(EntryPath) /\ arch # "unknown"
                  THEN [active |-> TRUE, path |-> EntryPath, arch |-> arch,
                        lines |-> NeededLines(EntryPath)]
                  ELSE NoFile
    /\ walk' = Append(walk, EntryPath)
    /\ UNCHANGED <<pc, exit_code, options, dir_set, store_vars, oob, diag,
                   txt_report, pdf_report, summary, cmdline, last, norm_vars>>

\* lines 245, 280: readdir returns NULL: closedir and return
ScanClose ==
    /\ Scanning
    /\ Top.open
    /\ Top.pos > Len(DirEntries(Top.path))
    /\ Return
    /\ UNCHANGED <<exit_code, options, dir_set, store_vars, oob, diag, cur,
                   txt_report, pdf_report, summary, cmdline, last, walk,
                   norm_vars>>

(***************************************************************************)
(* get_dependencies (lines 332-389): one action per NEEDED line            *)
(***************************************************************************)
DepName == cur.lines[1]

DepMatch == FirstMatch(options.libs, options.lib_count, DepName)

DepPattern == lib_pattern_of(options.libs[DepMatch])

\* lines 346-382, every index in range (the terms of Terms are shorter than
\* lib_pattern, the names of the fixture shorter than lib_name)
Dependency ==
    /\ pc = "scan"
    /\ cur.active
    /\ cur.lines # <<>>
    /\ last' = Op("record", cur.arch, DepName, DepMatch, cur.path)
    /\ DepMatch # 0 => ~RecordOutOfRange(Mem, cur.arch, DepPattern)
    /\ \E M2 \in {IF DepMatch = 0 THEN Mem
                    ELSE Record(Mem, cur.arch, DepPattern, cur.path)} : SetMem(M2)
    /\ cur' = [cur EXCEPT !.lines = Tail(@)]
    /\ UNCHANGED <<pc, exit_code, options, dir_set, stack, txt_report,
                   pdf_report, summary, cmdline, walk,
                   norm_vars>>

\* lines 374-376 with an index of -1: the accesses are outside the arrays.
\* Either the process goes on with what the stray slot holds, or it faults.
DependencyOutOfRange ==
    /\ pc = "scan"
    /\ cur.active
    /\ cur.lines # <<>>
    /\ last' = Op("record", cur.arch, DepName, DepMatch, cur.path)
    /\ DepMatch # 0
    /\ RecordOutOfRange(Mem, cur.arch, DepPattern)
    /\ \/ /\ \E M2 \in {Record(Mem, cur.arch, DepPattern, cur.path)} : SetMem(M2)
          /\ cur' = [cur EXCEPT !.lines = Tail(@)]
          /\ UNCHANGED pc
       \/ /\ SetMem([find_or_add_library(
                        find_or_add_architecture(Mem, cur.arch).M,
                        find_or_add_architecture(Mem, cur.arch).ret,
                        DepPattern).M
                     EXCEPT !.oob = @ \cup {"libraries[-1]"}])
          /\ pc' = "crashed"
          /\ UNCHANGED cur
    /\ UNCHANGED <<exit_code, options, dir_set, stack, txt_report, pdf_report,
                   summary, cmdline, walk,
                   norm_vars>>

\* lines 384-389: fgets returns NULL: pclose and return
DependenciesDone ==
    /\ pc = "scan"
    /\ cur.active
    /\ cur.lines = <<>>
    /\ cur' = NoFile
    /\ UNCHANGED <<pc, exit_code, options, dir_set, store_vars, oob, diag, stack,
                   txt_report, pdf_report, summary, cmdline, last, walk,
                   norm_vars>>

(***************************************************************************)
(* The reports (lines 459-505, 516-655)                                    *)
(***************************************************************************)
\* the comparator with its operands the other way round
compare_libraries_ascending(lib_a, lib_b) == lib_a.exec_count - lib_b.exec_count

\* lines 452-457
compare_libraries(lib_a, lib_b) == lib_b.exec_count - lib_a.exec_count

\* rearrangements that may write one element over another
PermsLossy(n) == {f \in [LibIdx -> LibIdx] : \A i \in LibIdx : i >= n => f[i] = i}

\* the permutations of the first n slots
Perms(n) ==
    {f \in [LibIdx -> LibIdx] :
        /\ \A i \in LibIdx : i >= n => f[i] = i
        /\ \A i, j \in LibIdx : f[i] = f[j] => i = j}

\* qsort(libraries, n, sizeof(Library), compare_libraries): the array
\* rearranged in place into an order the comparator accepts; which one,
\* among elements that compare equal, qsort does not say.  The set of the
\* rearrangements (as permutations of the slots) qsort may make.
QsortPerms(libraries, n) ==
    {g \in Perms(n) :
        \A i \in 0..(n - 2) :
            compare_libraries(libraries[g[i]], libraries[g[i + 1]]) <= 0}

\* the stores the loop over the architectures (lines 478-501, 562-641) can
\* leave: every archs[a].libraries, a < arch_count, sorted
SortedStores ==
    {[a \in ArchIdx |->
        [archs[a] EXCEPT !.libraries = [l \in LibIdx |-> archs[a].libraries[q[a][l]]]]] :
     q \in {r \in [ArchIdx -> Perms(MAX_LIBS)] :
              \A a \in ArchIdx :
                 r[a] \in QsortPerms(archs[a].libraries,
                                     IF a < arch_count THEN archs[a].lib_count ELSE 0)}}

\* what the loops print: per architecture its name, per library its name,
\* its count and its executables
ReportBody(A) ==
    [a \in 1..arch_count |->
        [name |-> A[a - 1].name,
         libs |-> [l \in 1..A[a - 1].lib_count |->
                    LET lib == A[a - 1].libraries[l - 1]
                    IN  [name |-> lib.name,
                         exec_count |-> lib.exec_count,
                         execs |-> [e \in 1..lib.exec_count |-> lib.execs[e - 1]]]]]]

TooLong == options.output_len + 5 > MAX_PATH

\* main line 88: txt not requested
TxtNotRequested ==
    /\ pc = "txt"
    /\ ~options.txt_format
    /\ pc' = "pdf"
    /\ UNCHANGED <<exit_code, options, dir_set, store_vars, oob, diag, stack, cur,
                   txt_report, pdf_report, summary, cmdline, last, walk,
                   norm_vars>>

\* a text report that cannot be written ends the run with failure
TxtNotWrittenFatal ==
    /\ pc = "txt"
    /\ options.txt_format
    /\ diag' = diag \cup {IF TooLong THEN "Output filename too long (txt)"
                          ELSE "Cannot create output file"}
    /\ Exit(1)
    /\ UNCHANGED <<options, dir_set, store_vars, oob, stack, cur,
                   txt_report, pdf_report, summary, cmdline, last, walk,
                   norm_vars>>

\* lines 463-473: the name is too long, or fopen fails: return
TxtNotWritten ==
    /\ pc = "txt"
    /\ options.txt_format
    /\ diag' = diag \cup {IF TooLong THEN "Output filename too long (txt)"
                          ELSE "Cannot create output file"}
    /\ pc' = "pdf"
    /\ UNCHANGED <<exit_code, options, dir_set, store_vars, oob, stack, cur,
                   txt_report, pdf_report, summary, cmdline, last, walk,
                   norm_vars>>

\* lines 475-504: the report is written
generate_txt_report ==
    /\ pc = "txt"
    /\ options.txt_format
    /\ ~TooLong
    /\ \E A \in SortedStores :
         /\ archs' = A
         /\ txt_report' = [saved |-> TRUE, body |-> ReportBody(A)]
    /\ pc' = "pdf"
    /\ last' = Op("txt", "", <<>>, 0, <<>>)
    /\ UNCHANGED <<exit_code, options, dir_set, arch_count, total_execs, phantom,
                   oob, diag, stack, cur, pdf_report, summary, cmdline, walk,
                   norm_vars>>

\* main line 92: pdf not requested
PdfNotRequested ==
    /\ pc = "pdf"
    /\ ~options.pdf_format
    /\ pc' = "summary"
    /\ UNCHANGED <<exit_code, options, dir_set, store_vars, oob, diag, stack, cur,
                   txt_report, pdf_report, summary, cmdline, last, walk,
                   norm_vars>>

\* lines 526-537: the name is too long, or HPDF_New fails: return; lines
\* 652-654: the build without PDF_SUPPORT only prints a message
PdfNotStarted ==
    /\ pc = "pdf"
    /\ options.pdf_format
    /\ \E msg \in {IF TooLong THEN "Output filename too long (pdf)"
                    ELSE "Cannot create PDF document",
                    "PDF support is not available"} :
         diag' = diag \cup {msg}
    /\ pc' = "summary"
    /\ UNCHANGED <<exit_code, options, dir_set, store_vars, oob, stack, cur,
                   txt_report, pdf_report, summary, cmdline, last, walk,
                   norm_vars>>

\* lines 539-651: the pages are built, then HPDF_SaveToFile succeeds or not
generate_pdf_report ==
    /\ pc = "pdf"
    /\ options.pdf_format
    /\ ~TooLong
    /\ \E A \in SortedStores, ok \in BOOLEAN :
         /\ archs' = A
         /\ pdf_report' = IF ok THEN [saved |-> TRUE, body |-> ReportBody(A)]
                          ELSE pdf_report
         /\ diag' = IF ok THEN diag ELSE diag \cup {"Cannot save PDF"}
    /\ pc' = "summary"
    /\ last' = Op("pdf", "", <<>>, 0, <<>>)
    /\ UNCHANGED <<exit_code, options, dir_set, arch_count, total_execs, phantom,
                   oob, stack, cur, txt_report, summary, cmdline, walk,
                   norm_vars>>

\* main lines 96-109: the summary line, cleanup, return 0
Summary ==
    /\ pc = "summary"
    /\ summary' = <<total_execs, arch_count>>
    /\ Exit(0)
    /\ UNCHANGED <<options, dir_set, store_vars, oob, diag, stack, cur,
                   txt_report, pdf_report, cmdline, last, walk,
                   norm_vars>>

\* After an out-of-range write the heap or the stack is damaged: the
\* process may be killed (SIGSEGV, abort in free) at any later step.
Crash ==
    /\ pc \in {"parse", "scan", "txt", "pdf", "summary"}
    /\ oob # {}
    /\ pc' = "crashed"
    /\ UNCHANGED <<exit_code, options, dir_set, store_vars, oob, diag, stack, cur,
                   txt_report, pdf_report, summary, cmdline, last, walk,
                   norm_vars>>

Next ==
    \/ MallocFails \/ NoArguments \/ BeginParse
    \/ ArgHelp \/ ArgLib \/ ArgMissingValue \/ ArgDir \/ ArgFormat
    \/ ArgFormatUnknown \/ ArgOutput \/ ArgOutputOverflow \/ ArgUnknown \/ ArgsEnd
    \/ ScanOpen \/ ScanSkip \/ ScanDescend \/ ScanFile \/ ScanClose
    \/ Dependency \/ DependencyOutOfRange \/ DependenciesDone
    \/ TxtNotRequested \/ TxtNotWritten \/ generate_txt_report
    \/ PdfNotRequested \/ PdfNotStarted \/ generate_pdf_report
    \/ Summary \/ Crash

Spec == Init /\ [][Next]_vars

(***************************************************************************)
(* The scan on its own: main at line 85, after parse_arguments has         *)
(* returned for a command line of --lib options and --dir r.  The process  *)
(* is sequential and is scheduled: while the scan has a next statement it  *)
(* executes it.                                                            *)
(***************************************************************************)
ScanInit ==
    /\ pc = "scan"
    /\ exit_code = -1
    /\ \E n \in 1..LibFlagCap : \E libs \in [1..n -> Terms] :
         options = [libs |-> libs, lib_count |-> n, dir |-> Root,
                    output_len |-> DefaultOutputLen,
                    txt_format |-> TRUE, pdf_format |-> FALSE]
    /\ dir_set = TRUE
    /\ archs = [a \in ArchIdx |-> ZeroArchitecture]
    /\ arch_count = 0
    /\ total_execs = 0
    /\ phantom = [a \in ArchIdx |-> <<>>]
    /\ oob = IF options.lib_count > MAX_LIBS THEN {"libs[MAX_LIBS]"} ELSE {}
    /\ diag = {}
    /\ stack = <<[path |-> Root, pos |-> 1, open |-> FALSE]>>
    /\ cur = NoFile
    /\ txt_report = NoReport
    /\ pdf_report = NoReport
    /\ summary = <<>>
    /\ cmdline = [empty |-> FALSE, help |-> FALSE]
    /\ walk = <<Root>>
    /\ last = [op |-> "none", arch |-> "", dep |-> <<>>, term |-> 0, path |-> <<>>,
               before |-> StoreNow]
    /\ NormIdle

ScanNext ==
    \/ ScanOpen \/ ScanSkip \/ ScanDescend \/ ScanFile \/ ScanClose
    \/ Dependency \/ DependencyOutOfRange \/ DependenciesDone \/ Crash

SpecScan == ScanInit /\ [][ScanNext]_vars /\ WF_vars(ScanNext)

(***************************************************************************)
(* Normalization on its own: the canonical form of a search term (lines    *)
(* 360-371), applied to a term and again to its result.                    *)
(***************************************************************************)
\* the longest run of filler characters in a term
MaxPad == 256

T_pthread == <<"p", "t", "h", "r", "e", "a", "d">>

T_libdl == <<"l", "i", "b", "d", "l">>

T_libm_so == <<"l", "i", "b", "m", ".", "s", "o">>

NormTerms ==
    Terms \cup {T_pthread, T_libdl, T_libm_so, libc_so_6} \cup
    {pre \o Rep("a", n) \o suf :
        pre \in {<<>>, Lib}, n \in 0..MaxPad, suf \in {<<>>, DotSo, <<".", "s">>}}

NormInit ==
    /\ ProgInit
    /\ n_pc = "term"
    /\ n_term \in NormTerms
    /\ n_once = <<>>
    /\ n_twice = <<>>

NormInput == IF n_pc = "term" THEN n_term ELSE n_once

\* lines 363-371 on the term
Normalize ==
    /\ n_pc = "term"
    /\ ~PatternOverflows(n_term)
    /\ n_once' = lib_pattern_of(n_term)
    /\ n_pc' = "once"
    /\ UNCHANGED <<prog_vars, n_term, n_twice>>

\* lines 363-371 on the canonical form
Renormalize ==
    /\ n_pc = "once"
    /\ ~PatternOverflows(n_once)
    /\ n_twice' = lib_pattern_of(n_once)
    /\ n_pc' = "twice"
    /\ UNCHANGED <<prog_vars, n_term, n_once>>

\* line 370 with a term of LIB_PATTERN_SIZE characters or more: strcpy
\* writes past lib_pattern; the process is killed (stack protector, fault)
\* or goes on with the string as written
NormalizeOverflow ==
    /\ n_pc \in {"term", "once"}
    /\ PatternOverflows(NormInput)
    /\ oob' = oob \cup {"lib_pattern"}
    /\ \/ /\ n_pc' = "crashed"
          /\ UNCHANGED <<n_once, n_twice>>
       \/ /\ n_pc = "term"
          /\ n_once' = lib_pattern_of(n_term)
          /\ n_pc' = "once"
          /\ UNCHANGED n_twice
       \/ /\ n_pc = "once"
          /\ n_twice' = lib_pattern_of(n_once)
          /\ n_pc' = "twice"
          /\ UNCHANGED n_once
    /\ UNCHANGED <<pc, exit_code, options, dir_set, store_vars, diag, stack, cur,
                   txt_report, pdf_report, summary, cmdline, last, walk, n_term>>

NormNext == Normalize \/ Renormalize \/ NormalizeOverflow

SpecNorm == NormInit /\ [][NormNext]_vars

(***************************************************************************)
(* Properties                                                              *)
(***************************************************************************)
\* normalization as the specification words it, with no buffer
SpecNormalize(x) ==
    IF Contains(x, DotSo) THEN x
    ELSE IF HasPrefix(x, Lib) THEN x \o DotSo
    ELSE Lib \o x \o DotSo

\* the (architecture, library) slots of a store that are in use
Slots(S) ==
    {<<a, l>> \in ArchIdx \X LibIdx :
        a < S.arch_count /\ l < S.archs[a].lib_count}

\* the executables of the library named L of the architecture named A
Bucket(S, A, L) ==
    UNION {{S.archs[p[1]].libraries[p[2]].execs[e] :
                e \in 0..(S.archs[p[1]].libraries[p[2]].exec_count - 1)} :
           p \in {q \in Slots(S) : /\ S.archs[q[1]].name = A
                                   /\ S.archs[q[1]].libraries[q[2]].name = L}}

ArchNames(S) == {S.archs[a].name : a \in 0..(S.arch_count - 1)}

LibNames(S) == {S.archs[p[1]].libraries[p[2]].name : p \in Slots(S)}

HasArch(S, A) == A \in ArchNames(S)

HasLib(S, A, L) ==
    \E p \in Slots(S) : S.archs[p[1]].name = A /\ S.archs[p[1]].libraries[p[2]].name = L

Recorded(S, A, L, path) == path \in Bucket(S, A, L)

\* the last operation was a NEEDED line that matched a term
LastMatched == last.op = "record" /\ last.term # 0

LastPattern == SpecNormalize(options.libs[last.term])

RECURSIVE SumCounts(_, _)
SumCounts(S, slots) ==
    IF slots = {} THEN 0
    ELSE LET p == CHOOSE q \in slots : TRUE
         IN  S.archs[p[1]].libraries[p[2]].exec_count + SumCounts(S, slots \ {p})

\* C1: recording a triple that is already recorded leaves the store as it
\* was: the library's exec_count and executables, and total_execs.  Stated
\* of the last NEEDED line processed, and of every triple of every
\* reachable store.
C1_IdempotentInsert ==
    /\ (LastMatched /\ Recorded(last.before, last.arch, LastPattern, last.path))
          => StoreNow = last.before
    /\ \A p \in Slots(StoreNow) :
         \A e \in 0..(archs[p[1]].libraries[p[2]].exec_count - 1) :
            LET M == Record(Mem, archs[p[1]].name, archs[p[1]].libraries[p[2]].name,
                            archs[p[1]].libraries[p[2]].execs[e])
            IN  /\ M.archs = archs
                /\ M.arch_count = arch_count
                /\ M.total_execs = total_execs

C1_Witness ==
    /\ LastMatched
    /\ Recorded(last.before, last.arch, LastPattern, last.path)
    /\ Recorded(StoreNow, last.arch, LastPattern, last.path)
    /\ total_execs > 0

\* C2: total_execs is the sum of the exec_count of every library of every
\* architecture of the store.
C2_TotalIsSum == total_execs = SumCounts(StoreNow, Slots(StoreNow))

\* C3: the architectures in use have distinct names, and within each the
\* libraries in use have distinct names.
C3_UniqueKeys ==
    /\ \A a, b \in 0..(arch_count - 1) : archs[a].name = archs[b].name => a = b
    /\ \A a \in 0..(arch_count - 1) :
         \A l, m \in 0..(archs[a].lib_count - 1) :
            archs[a].libraries[l].name = archs[a].libraries[m].name => l = m

\* a record found both its architecture and its library where an earlier
\* record had put them, next to other architectures and libraries
C3_Witness ==
    /\ LastMatched
    /\ HasLib(last.before, last.arch, LastPattern)
    /\ arch_count >= 2
    /\ \E a \in 0..(arch_count - 1) : archs[a].lib_count >= 2
    /\ ArchNames(StoreNow) = ArchNames(last.before)
    /\ LibNames(StoreNow) = LibNames(last.before)

\* the terms whose canonical form is a substring of the dependency name
\* and that no earlier term precedes in this
FirstMatching(dep) ==
    {i \in 1..options.lib_count :
        /\ Contains(dep, SpecNormalize(options.libs[i]))
        /\ \A j \in 1..(i - 1) : ~Contains(dep, SpecNormalize(options.libs[j]))}

\* the record fits the store: no bound stands in the way of it
Fits(S, A, L, path) ==
    /\ HasArch(S, A) \/ S.arch_count < MAX_ARCH
    /\ HasLib(S, A, L) \/ ~HasArch(S, A)
          \/ \E a \in 0..(S.arch_count - 1) :
                S.archs[a].name = A /\ S.archs[a].lib_count < MAX_LIBS
    /\ Recorded(S, A, L, path) \/ ~HasLib(S, A, L)
          \/ \E p \in Slots(S) :
                /\ S.archs[p[1]].name = A
                /\ S.archs[p[1]].libraries[p[2]].name = L
                /\ S.archs[p[1]].libraries[p[2]].exec_count < MAX_EXECS

\* C4: a NEEDED line changes at most one bucket, the one of the running
\* file's architecture named by the canonical form of the first term, in the
\* order of the command line, whose canonical form is a substring of the
\* dependency name, and that bucket then holds the file (when the store has
\* room for it); no other bucket and no other architecture is touched; a
\* line that matches no term changes nothing.
C4_FirstMatch ==
    last.op = "record" =>
        IF FirstMatching(last.dep) = {}
        THEN StoreNow = last.before
        ELSE \A i \in FirstMatching(last.dep) :
               LET L == SpecNormalize(options.libs[i])
               IN  /\ \A A \in ArchNames(StoreNow) \cup ArchNames(last.before) :
                         \A N \in LibNames(StoreNow) \cup LibNames(last.before) :
                            Bucket(StoreNow, A, N) # Bucket(last.before, A, N)
                               => A = last.arch /\ N = L
                   /\ ArchNames(StoreNow) \subseteq ArchNames(last.before) \cup {last.arch}
                   /\ Fits(last.before, last.arch, L, last.path)
                         => Recorded(StoreNow, last.arch, L, last.path)

\* two terms with different canonical forms match the line; the file went
\* to the bucket of the earlier one and not to that of the later one
C4_Witness ==
    /\ last.op = "record"
    /\ \E i \in FirstMatching(last.dep) :
         \E j \in (i + 1)..options.lib_count :
            /\ Contains(last.dep, SpecNormalize(options.libs[j]))
            /\ SpecNormalize(options.libs[j]) # SpecNormalize(options.libs[i])
            /\ Recorded(StoreNow, last.arch, SpecNormalize(options.libs[i]), last.path)
            /\ ~Recorded(last.before, last.arch, SpecNormalize(options.libs[i]), last.path)
            /\ ~Recorded(StoreNow, last.arch, SpecNormalize(options.libs[j]), last.path)

\* the record of the last NEEDED line would exceed a bound of the store
LastExceeds ==
    /\ LastMatched
    /\ ~Fits(last.before, last.arch, LastPattern, last.path)

\* C6: a record that would exceed a bound is dropped: the store is as it
\* was, and no slot outside the arrays was read or written.
C6_CapacityDrop ==
    LastExceeds =>
        /\ StoreNow = last.before
        /\ "libraries[-1]" \notin oob
        /\ "archs[-1]" \notin oob

\* C7 as claimed: a report leaves the store exactly as it was.
C7_ReportsLeaveStoreUnchanged ==
    [][(pc \in {"txt", "pdf"}) =>
          (archs' = archs /\ arch_count' = arch_count /\ total_execs' = total_execs)]_vars

\* the libraries in use of architecture b are those of a, each as often
SameLibraries(a, b) ==
    /\ a.name = b.name
    /\ a.lib_count = b.lib_count
    /\ \A l \in LibIdx : l >= a.lib_count => a.libraries[l] = b.libraries[l]
    /\ \A r \in {a.libraries[l] : l \in LibIdx} \cup {b.libraries[l] : l \in LibIdx} :
         Cardinality({l \in 0..(a.lib_count - 1) : a.libraries[l] = r})
            = Cardinality({l \in 0..(b.lib_count - 1) : b.libraries[l] = r})

\* C7 (amended): a report changes nothing of the store but the order of the
\* libraries within an architecture: the architectures and their order, each
\* library's name, executables and exec_count, and total_execs stay.
C7_ReportsOnlyReorder ==
    [][(pc \in {"txt", "pdf"}) =>
          /\ UNCHANGED <<arch_count, total_execs>>
          /\ \A a \in ArchIdx : SameLibraries(archs[a], archs'[a])]_vars

\* a report has run and has moved libraries
C7_Witness ==
    /\ last.op \in {"txt", "pdf"}
    /\ archs # last.before.archs
    /\ txt_report.saved \/ pdf_report.saved

\* C8: in a report that was written, the libraries of each architecture are
\* in non-increasing order of exec_count.
C8_ReportOrdering ==
    \A rep \in {txt_report, pdf_report} :
        rep.saved =>
            \A a \in 1..Len(rep.body) :
                \A l \in 1..(Len(rep.body[a].libs) - 1) :
                    rep.body[a].libs[l].exec_count >= rep.body[a].libs[l + 1].exec_count

\* the store held, in some architecture, a library with fewer executables
\* before one with more, and the report was written
C8_Witness ==
    /\ last.op = "txt"
    /\ txt_report.saved
    /\ \E a \in 0..(last.before.arch_count - 1) :
         /\ last.before.archs[a].lib_count >= 2
         /\ last.before.archs[a].libraries[0].exec_count
               < last.before.archs[a].libraries[1].exec_count

\* a required option is missing from the command line read so far, which
\* holds no help option
LacksRequired == ~cmdline.help /\ (options.lib_count = 0 \/ ~dir_set)

NothingScanned ==
    /\ pc \in {"start", "parse", "exited", "crashed"}
    /\ arch_count = 0 /\ total_execs = 0 /\ stack = <<>> /\ ~cur.active
    /\ ~txt_report.saved /\ ~pdf_report.saved /\ summary = <<>>

\* C9 as claimed: a run without a help option that lacks a required option,
\* the run with no argument included, scans nothing, writes no report and
\* exits with failure.
C9_MissingRequiredFails ==
    LacksRequired => NothingScanned /\ (pc = "exited" => exit_code = 1)

\* C9 (amended): such a run scans nothing and writes no report; with no
\* argument at all it exits with success (with failure when the first
\* allocation fails), with arguments it never exits with success.
C9_MissingRequiredNoScan ==
    LacksRequired =>
        /\ NothingScanned
        /\ pc = "exited" =>
              \/ exit_code = 1 /\ diag # {}
              \/ exit_code = 0 /\ cmdline.empty /\ diag = {}
        /\ (pc = "exited" /\ cmdline.empty /\ "Memory allocation failed" \notin diag)
              => exit_code = 0

\* a run that gave --lib but no --dir has ended
C9_Witness ==
    /\ pc = "exited"
    /\ ~cmdline.help /\ ~cmdline.empty
    /\ options.lib_count > 0 /\ ~dir_set
    /\ exit_code = 1
    /\ "Scan directory must be specified" \in diag

\* C10: an output name that is too long ends the run with failure before
\* the scan: the scan and the reports are never reached.
C10_TooLongIsFatal ==
    (TooLong /\ ~cmdline.help) =>
        /\ pc \notin {"scan", "txt", "pdf", "summary"}
        /\ pc = "exited" => exit_code = 1

\* C5: the canonical form of every search term is the one the three rules
\* give, and normalizing the canonical form again gives it again.
C5_Normalization ==
    /\ n_pc \in {"once", "twice"} => n_once = SpecNormalize(n_term)
    /\ n_pc = "twice" => n_twice = n_once

\* the paths scan_directory and its file test were given so far
Walked == {walk[i] : i \in 1..Len(walk)}

\* the executables in the store
StoredExecs ==
    UNION {{archs[p[1]].libraries[p[2]].execs[e] :
                e \in 0..(archs[p[1]].libraries[p[2]].exec_count - 1)} :
           p \in Slots(StoreNow)}

\* below the root, no path the scan went to leads through a symbolic link,
\* no file or directory was gone to twice, and no executable is in the
\* store under a path through a link
NoLinkFollowed ==
    /\ \A i \in 1..Len(walk) : walk[i] = Real(walk[i])
    /\ \A i \in 1..Len(stack) : stack[i].path = Real(stack[i].path)
    /\ \A i, j \in 1..Len(walk) : Real(walk[i]) = Real(walk[j]) => i = j
    /\ \A i, j \in 1..Len(stack) : Real(stack[i].path) = Real(stack[j].path) => i = j
    /\ \A x \in StoredExecs : x = Real(x)

\* C11: on a tree with a symbolic link to an ancestor directory the scan
\* never goes into the link, goes to each directory and file at most once,
\* records no file under a second path, and comes to an end.
C11_SymlinkNotFollowed ==
    /\ []NoLinkFollowed
    /\ (pc = "scan") ~> (pc # "scan")

\* the scan has ended after it passed the link to the root in r/sub and
\* went on to the entries after it
C11_Witness ==
    /\ pc = "txt"
    /\ LstatKind(LoopLink) = "lnk"
    /\ StatKind(LoopLink) = "dir"
    /\ LoopLink \notin Walked
    /\ {<<"r", "sub", "b">>, <<"r", "sub", "c">>, <<"r", "sub", "k">>} \subseteq Walked
    /\ total_execs > 0

Locked == <<"r", "locked">>

\* the regular files of the part of the tree below d that can be read
RECURSIVE FilesUnder(_)
FilesUnder(d) ==
    IF ~CanOpen(d) THEN {}
    ELSE UNION {LET name == DirEntries(d)[i]
                    p == d \o <<name>>
                IN  IF name \in {".", ".."} THEN {}
                    ELSE IF LstatKind(p) = "dir" THEN FilesUnder(p)
                    ELSE IF LstatKind(p) = "reg" THEN {p}
                    ELSE {} :
                i \in 1..Len(DirEntries(d))}

\* the (architecture, library, executable) triples the files f give: one
\* for each NEEDED name of an ELF executable of a known architecture, under
\* the first term that matches the name
MatchesOf(F) ==
    UNION {UNION {{<<get_architecture(MachineLine(f)),
                     SpecNormalize(options.libs[i]), f>> :
                        i \in FirstMatching(NeededLines(f)[n])} :
                  n \in 1..Len(NeededLines(f))} :
           f \in {g \in F : /\ is_executable(g)
                            /\ get_architecture(MachineLine(g)) # "unknown"}}

\* the triples in the store
StoredTriples ==
    UNION {{<<archs[p[1]].name, archs[p[1]].libraries[p[2]].name,
              archs[p[1]].libraries[p[2]].execs[e]>> :
                e \in 0..(archs[p[1]].libraries[p[2]].exec_count - 1)} :
           p \in Slots(StoreNow)}

\* no insert was refused for want of room and no array was left
NoDrop ==
    /\ oob = {}
    /\ diag \cap {"Too many architectures", "Too many libraries",
                  "Too many executables"} = {}

\* the directory that cannot be opened was met and left with a diagnostic;
\* nothing below it was looked at or stored; the scan goes on, and when it
\* has returned every file of the readable part was looked at and, when
\* the store had room, the store holds the matches of exactly those files
UnreadableSkipped ==
    /\ pc \in {"scan", "txt", "crashed"}
    /\ pc = "crashed" => oob # {}
    /\ (Locked \in Walked /\ \A i \in 1..Len(stack) : stack[i].path # Locked)
          => "Cannot open directory" \in diag
    /\ \A x \in Walked \cup StoredExecs :
          x # Locked => Parent(x) # Locked
    /\ pc = "txt" =>
          /\ FilesUnder(Root) \subseteq Walked
          /\ Walked \subseteq FilesUnder(Root) \cup {Root, <<"r", "sub">>, Locked}
          /\ StoredTriples \subseteq MatchesOf(FilesUnder(Root))
          /\ NoDrop => StoredTriples = MatchesOf(FilesUnder(Root))

\* C12: a subdirectory that cannot be opened is left with a diagnostic and
\* nothing of it is recorded; its siblings are still processed, the scan
\* returns, and the store holds exactly the matches of the readable part.
C12_UnreadableSubdirSkipped ==
    /\ []UnreadableSkipped
    /\ (pc = "scan") ~> (pc = "txt" \/ oob # {})

\* the scan has returned with r/locked skipped: the file in it would have
\* matched a term, and r/d, an entry after it, is in the store
C12_Witness ==
    /\ pc = "txt"
    /\ NoDrop
    /\ "Cannot open directory" \in diag
    /\ ~CanOpen(Locked)
    /\ MatchesOf({<<"r", "locked", "z">>}) # {}
    /\ MatchesOf({<<"r", "locked", "z">>}) \cap StoredTriples = {}
    /\ <<"r", "d">> \in StoredExecs

\* the text report was asked for and could not be written
TxtFailed ==
    diag \cap {"Cannot create output file", "Output filename too long (txt)"} # {}

\* generate_pdf_report was called: it saved the report or said why not
PdfAttempted ==
    \/ pdf_report.saved
    \/ diag \cap {"Cannot save PDF", "Cannot create PDF document",
                  "Output filename too long (pdf)",
                  "PDF support is not available"} # {}

C14_TermsWithinCapacity ==
    /\ options.lib_count <= MAX_LIBS
    /\ Len(options.libs) <= MAX_LIBS
    /\ "libs[MAX_LIBS]" \notin oob

====
